---- MODULE Spec2Model ----
(***************************************************************************)
(* The chunked encryption pipeline of gocypher (cypher/cypher.go): the     *)
(* four operations EncryptFile, DecryptFile, Encrypt and Decrypt, each a   *)
(* feeder (the calling goroutine), NumWorkers worker goroutines and one    *)
(* reassembler goroutine (writeChunks, or the collector closure), joined   *)
(* by two buffered channels, a one-slot error channel and a context.       *)
(*                                                                         *)
(* A behaviour is one encryption run and, when it returned success, one    *)
(* decryption run on its output (possibly corrupted in between, possibly   *)
(* with another key).                                                      *)
(***************************************************************************)
EXTENDS Integers, Sequences, FiniteSets, TLC

\* ------------------------------------------------------------------ bounds

\* Longest plaintext, in bytes.
MaxLen == 3
\* Largest ChunkSize (WithChunkSize), in bytes.
MaxChunk == 2
\* Largest NumWorkers (WithNumWorkers).
MaxWorkers == 2
\* Plaintext bytes are 0..MaxByte.
MaxByte == 1
\* The random source yields nonce bytes 0..MaxNonce.
MaxNonce == 1
\* Keys are 0..MaxKey.
MaxKey == 1
\* A corruption flips one of the first MaxFlip bytes of the ciphertext.
MaxFlip == 4
\* A truncation drops up to MaxTrunc bytes from the end of the ciphertext.
MaxTrunc == 3
\* The length of the one long plaintext of SpecLong, in chunks of one byte.
LongLen == 8

\* ------------------------------------------------- the AEAD (crypto/cipher)
\* gcm.NonceSize() and gcm.Overhead(), scaled down (12 and 16 in AES-GCM).
NonceSize == 2
Overhead == 1

\* Byte arithmetic is modulo ByteMod.
ByteMod == 4

Min(a, b) == IF a < b THEN a ELSE b

RECURSIVE SeqCode(_)
\* An injective code of a byte sequence.
SeqCode(s) == IF s = <<>> THEN 0 ELSE (s[1] + 1) + (ByteMod + 1) * SeqCode(Tail(s))

\* The keystream byte at index i under key k and nonce n.
KeyStream(k, n, i) == (k + 2 * n[1] + i) % ByteMod

\* The authentication tag of ciphertext body ct under key k and nonce n: one
\* symbol per tag byte, an injective function of (k, n, ct), outside the byte
\* range.
Tag(k, n, ct) ==
    [j \in 1..Overhead |->
        ByteMod + k + (MaxKey + 2) * (n[1] + (ByteMod + 1) * SeqCode(ct))]

\* gcm.Seal(nil, nonce, plaintext, nil): ciphertext body followed by the tag.
Seal(k, n, pt) ==
    LET ct == [i \in 1..Len(pt) |-> (pt[i] + KeyStream(k, n, i)) % ByteMod]
    IN ct \o Tag(k, n, ct)

\* gcm.Open(nil, nonce, ciphertext, nil): the plaintext, or an error when the
\* ciphertext is shorter than the tag or the tag does not match.
Open(k, n, c) ==
    IF Len(c) < Overhead THEN [ok |-> FALSE, data |-> <<>>]
    ELSE LET ct == SubSeq(c, 1, Len(c) - Overhead)
             tg == SubSeq(c, Len(c) - Overhead + 1, Len(c))
         IN IF tg = Tag(k, n, ct)
            THEN [ok |-> TRUE,
                  data |-> [i \in 1..Len(ct) |->
                              (ct[i] + ByteMod - KeyStream(k, n, i)) % ByteMod]]
            ELSE [ok |-> FALSE, data |-> <<>>]

\* --------------------------------------------------------------- the state

VARIABLES
    op,            \* the operation running: EncryptFile, DecryptFile, Encrypt, Decrypt
    c,             \* the Cypher: key, ChunkSize, NumWorkers
    rand,          \* the bytes crypto/rand may yield
    data,          \* the input: the input file's content, or the data argument
    plain,         \* the plaintext the encryption run was given
    intact,        \* the decryption run reads, with the same key, the whole output
                   \* of an encryption run in which nothing failed
    pc,            \* the caller: open, create, cipher, feed, wait, final, returned
    off,           \* bytes of the input consumed by the feed loop
    position,      \* the feed loop's position counter
    input,         \* rawChunks / encryptedChunks: the workers' input channel
    inputClosed,
    output,        \* encryptedChunks / decryptedChunks: the workers' output channel
    outputClosed,
    errorChan,     \* errorChan, capacity 1
    ctxDone,       \* ctx is cancelled
    wpc,           \* each worker: none (not started), select, send, report, exited
    wchunk,        \* the result chunk a worker is sending
    werr,          \* the error a worker is reporting
    rpc,           \* the reassembler: none (not started), range, drain, complete, exited
    pending,       \* pending / pendingChunks: position -> data
    nextPosition,
    result,        \* the output file's content, or the result buffer
    fileOpen,      \* the output file is open (file operations)
    ret,           \* what the operation returned
    reports,       \* the errors reported so far, in order (history)
    emitted,       \* the positions the reassembler emitted, in order (history)
    fed,           \* the chunks the feed loop sent, in order (history)
    inputOpened,   \* os.Open(inputPath) succeeded in this run (history)
    outputCreated, \* os.Create(outputPath) succeeded in this run (history)
    completions    \* how often the reassembler went on to signal completion (history)

vars == <<op, c, rand, data, plain, intact, pc, off, position, input, inputClosed,
          output, outputClosed, errorChan, ctxDone, wpc, wchunk, werr, rpc,
          pending, nextPosition, result, fileOpen, ret, reports, emitted, fed,
          inputOpened, outputCreated, completions>>

FileOps == {"EncryptFile", "DecryptFile"}
EncOps == {"EncryptFile", "Encrypt"}

NoChunk == [data |-> <<>>, position |-> -1]
NoErr == [kind |-> "nil", position |-> -1]
NoRet == [done |-> FALSE, err |-> NoErr, buf |-> <<>>]

Workers == 1..c.NumWorkers

\* A key of a length AES does not take: the nil key of a zero-value Cypher.
BadKey == MaxKey + 1

\* aes.NewCipher(key) succeeds: len(key) is 16, 24 or 32.
KeyOK(k) == k \in 0..MaxKey

\* A faulty encryptedChunkSize: the tag is forgotten.
EncryptedChunkSizeNoTag == c.ChunkSize + NonceSize

\* DecryptFile / Decrypt: encryptedChunkSize := c.ChunkSize + gcm.NonceSize() + gcm.Overhead()
EncryptedChunkSize == c.ChunkSize + NonceSize + Overhead

\* The size of the chunks the feed loop cuts the input into.
FeedSize == IF op \in EncOps THEN c.ChunkSize ELSE EncryptedChunkSize

\* The bytes a feed iteration starting at offset o takes: data[i:end], or the
\* n bytes a Read into a buffer of FeedSize bytes returns.
FeedChunk(o) == SubSeq(data, o + 1, Min(o + FeedSize, Len(data)))

\* A faulty position: Decrypt divides by the plaintext chunk size.
FeedPositionByChunkSize(o) == IF op \in FileOps THEN position ELSE o \div c.ChunkSize

\* A faulty position: the byte offset, undivided.
FeedPositionByOffset(o) == IF op \in FileOps THEN position ELSE o

\* The position the feed loop gives the chunk at offset o: the counter in the
\* file operations; i / c.ChunkSize in Encrypt, i / encryptedChunkSize in Decrypt.
FeedPosition(o) == IF op \in FileOps THEN position ELSE o \div FeedSize

\* The number of chunks the input is cut into.
NumChunks == (Len(data) + FeedSize - 1) \div FeedSize

\* The input chunk at position p.
InputChunk(p) == SubSeq(data, p * FeedSize + 1, Min((p + 1) * FeedSize, Len(data)))

\* make(chan DataChunk, c.NumWorkers)
ChanCap == c.NumWorkers

\* make(chan error, 1)
ErrorCap == 1

\* A faulty report: a plain send, errorChan <- e, which needs room in the channel.
ReportBlocking(ec, e) == Append(ec, e)

\* A non-blocking send on errorChan: select { case errorChan <- e: default: }
\* The error is dropped when the slot is taken.
Report(ec, e) == IF Len(ec) < ErrorCap THEN Append(ec, e) ELSE ec

\* The state of a run about to start its pipeline.
Start(o, cy, d) ==
    /\ op' = o
    /\ c' = cy
    /\ data' = d
    /\ pc' = IF o \in FileOps THEN "open" ELSE "cipher"
    /\ off' = 0
    /\ position' = 0
    /\ input' = <<>>
    /\ inputClosed' = FALSE
    /\ output' = <<>>
    /\ outputClosed' = FALSE
    /\ errorChan' = <<>>
    /\ ctxDone' = FALSE
    /\ wpc' = [w \in 1..cy.NumWorkers |-> "none"]
    /\ wchunk' = [w \in 1..cy.NumWorkers |-> NoChunk]
    /\ werr' = [w \in 1..cy.NumWorkers |-> NoErr]
    /\ rpc' = "none"
    /\ pending' = <<>>
    /\ nextPosition' = 0
    /\ result' = <<>>
    /\ fileOpen' = FALSE
    /\ ret' = NoRet
    /\ reports' = <<>>
    /\ emitted' = <<>>
    /\ fed' = <<>>
    /\ inputOpened' = FALSE
    /\ outputCreated' = FALSE
    /\ completions' = 0

RECURSIVE SeqsUpTo(_, _)
\* The sequences over S of length at most n.
SeqsUpTo(S, n) ==
    IF n = 0 THEN {<<>>}
    ELSE LET shorter == SeqsUpTo(S, n - 1)
         IN shorter \cup {Append(s, x) : s \in {t \in shorter : Len(t) = n - 1}, x \in S}

InitRun(o, cy, d, r) ==
    /\ op = o
    /\ c = cy
    /\ rand = r
    /\ data = d
    /\ plain = d
    /\ intact = FALSE
    /\ pc = IF o \in FileOps THEN "open" ELSE "cipher"
    /\ off = 0
    /\ position = 0
    /\ input = <<>>
    /\ inputClosed = FALSE
    /\ output = <<>>
    /\ outputClosed = FALSE
    /\ errorChan = <<>>
    /\ ctxDone = FALSE
    /\ wpc = [w \in 1..cy.NumWorkers |-> "none"]
    /\ wchunk = [w \in 1..cy.NumWorkers |-> NoChunk]
    /\ werr = [w \in 1..cy.NumWorkers |-> NoErr]
    /\ rpc = "none"
    /\ pending = <<>>
    /\ nextPosition = 0
    /\ result = <<>>
    /\ fileOpen = FALSE
    /\ ret = NoRet
    /\ reports = <<>>
    /\ emitted = <<>>
    /\ fed = <<>>
    /\ inputOpened = FALSE
    /\ outputCreated = FALSE
    /\ completions = 0

Init ==
    \E o \in EncOps, k \in (0..MaxKey) \cup {BadKey}, cs \in 1..MaxChunk,
       nw \in 1..MaxWorkers,
       d \in SeqsUpTo(0..MaxByte, MaxLen) :
        InitRun(o, [key |-> k, ChunkSize |-> cs, NumWorkers |-> nw], d, 0..MaxNonce)

\* ---------------------------------------------------------------- returning

\* A faulty return: cancel() is called and the operation goes on.
CancelAndGoOn(e, b) ==
    /\ pc' = pc
    /\ ret' = ret
    /\ ctxDone' = TRUE
    /\ fileOpen' = fileOpen

\* return: the deferred cancel() and outputFile.Close() run.
Return(e, b) ==
    /\ pc' = "returned"
    /\ ret' = [done |-> TRUE, err |-> e, buf |-> b]
    /\ ctxDone' = TRUE
    /\ fileOpen' = FALSE

\* A return before the context exists: only the deferred Close calls run.
EarlyReturn(e) ==
    /\ pc' = "returned"
    /\ ret' = [done |-> TRUE, err |-> e, buf |-> <<>>]
    /\ fileOpen' = FALSE

\* ------------------------------------------------- before the pipeline (caller)

\* os.Open(inputPath) succeeds.
OpenInput ==
    /\ pc = "open"
    /\ pc' = "create"
    /\ inputOpened' = TRUE
    /\ UNCHANGED <<op, c, rand, data, plain, intact, off, position, input, inputClosed,
                   output, outputClosed, errorChan, ctxDone, wpc, wchunk, werr, rpc,
                   pending, nextPosition, result, fileOpen, ret, reports, emitted, fed,
                   outputCreated, completions>>

\* A faulty order: the output file is created before the input file is opened.
OpenInputErrorAfterCreate ==
    /\ pc = "open"
    /\ EarlyReturn([kind |-> "failed to open input file", position |-> -1])
    /\ outputCreated' = TRUE
    /\ UNCHANGED <<op, c, rand, data, plain, intact, off, position, input, inputClosed,
                   output, outputClosed, errorChan, ctxDone, wpc, wchunk, werr, rpc,
                   pending, nextPosition, result, reports, emitted, fed, inputOpened,
                   completions>>

\* os.Open(inputPath) fails: return nil, "failed to open input file"
OpenInputError ==
    /\ pc = "open"
    /\ EarlyReturn([kind |-> "failed to open input file", position |-> -1])
    /\ UNCHANGED <<op, c, rand, data, plain, intact, off, position, input, inputClosed,
                   output, outputClosed, errorChan, ctxDone, wpc, wchunk, werr, rpc,
                   pending, nextPosition, result, reports, emitted, fed, inputOpened,
                   outputCreated, completions>>

\* os.Create(outputPath) succeeds: the output file exists, empty and open.
CreateOutput ==
    /\ pc = "create"
    /\ pc' = "cipher"
    /\ outputCreated' = TRUE
    /\ fileOpen' = TRUE
    /\ result' = <<>>
    /\ UNCHANGED <<op, c, rand, data, plain, intact, off, position, input, inputClosed,
                   output, outputClosed, errorChan, ctxDone, wpc, wchunk, werr, rpc,
                   pending, nextPosition, ret, reports, emitted, fed, inputOpened,
                   completions>>

\* os.Create(outputPath) fails: return nil, "failed to create output file"
CreateOutputError ==
    /\ pc = "create"
    /\ EarlyReturn([kind |-> "failed to create output file", position |-> -1])
    /\ UNCHANGED <<op, c, rand, data, plain, intact, off, position, input, inputClosed,
                   output, outputClosed, errorChan, ctxDone, wpc, wchunk, werr, rpc,
                   pending, nextPosition, result, reports, emitted, fed, inputOpened,
                   outputCreated, completions>>

\* aes.NewCipher(c.key) fails: return nil, "failed to create cipher"
NewCipherError ==
    /\ pc = "cipher"
    /\ ~KeyOK(c.key)
    /\ EarlyReturn([kind |-> "failed to create cipher", position |-> -1])
    /\ UNCHANGED <<op, c, rand, data, plain, intact, off, position, input, inputClosed,
                   output, outputClosed, errorChan, ctxDone, wpc, wchunk, werr, rpc,
                   pending, nextPosition, result, reports, emitted, fed, inputOpened,
                   outputCreated, completions>>

\* aes.NewCipher and cipher.NewGCM succeed: the context and the channels are
\* made, the workers and the reassembler are started.
StartPipeline ==
    /\ pc = "cipher"
    /\ KeyOK(c.key)
    /\ pc' = "feed"
    /\ wpc' = [w \in Workers |-> "select"]
    /\ rpc' = "range"
    /\ UNCHANGED <<op, c, rand, data, plain, intact, off, position, input, inputClosed,
                   output, outputClosed, errorChan, ctxDone, wchunk, werr, pending,
                   nextPosition, result, fileOpen, ret, reports, emitted, fed,
                   inputOpened, outputCreated, completions>>

\* ------------------------------------------------------- the feed loop (caller)

\* A faulty step: Decrypt and DecryptFile go on by the plaintext chunk size.
AdvanceByChunkSize(o) == o + c.ChunkSize

\* The offset after the chunk at o: the file offset after a Read of n bytes, or
\* i += chunkSize.
Advance(o) == IF op \in FileOps THEN o + Len(FeedChunk(o)) ELSE o + FeedSize

\* A faulty loop condition: one more iteration at the end of the input.
MoreInputInclusive(o) == o <= Len(data)

\* The feed loop goes on at offset o: i < len(data), or Read did not return io.EOF.
MoreInput(o) == o < Len(data)

\* select: case rawChunks <- DataChunk{data: chunk, position: position}
FeedSend ==
    /\ pc = "feed"
    /\ MoreInput(off)
    /\ Len(input) < ChanCap
    /\ input' = Append(input, [data |-> FeedChunk(off), position |-> FeedPosition(off)])
    /\ off' = Advance(off)
    /\ fed' = Append(fed, [data |-> FeedChunk(off), position |-> FeedPosition(off)])
    /\ position' = IF op \in FileOps THEN position + 1 ELSE position
    /\ UNCHANGED <<op, c, rand, data, plain, intact, pc, inputClosed, output,
                   outputClosed, errorChan, ctxDone, wpc, wchunk, werr, rpc, pending,
                   nextPosition, result, fileOpen, ret, reports, emitted,
                   inputOpened, outputCreated, completions>>

\* select: case err := <-errorChan: cancel(); return nil, err
FeedError ==
    /\ pc = "feed"
    /\ MoreInput(off)
    /\ Len(errorChan) > 0
    /\ errorChan' = Tail(errorChan)
    /\ Return(Head(errorChan), <<>>)
    /\ UNCHANGED <<op, c, rand, data, plain, intact, off, position, input, inputClosed,
                   output, outputClosed, wpc, wchunk, werr, rpc, pending, nextPosition,
                   result, reports, emitted,
                   fed, inputOpened, outputCreated, completions>>

\* inputFile.Read fails: cancel(); return nil, "failed to read input file"
FeedReadError ==
    /\ pc = "feed"
    /\ op \in FileOps
    /\ Return([kind |-> "read", position |-> position], <<>>)
    /\ UNCHANGED <<op, c, rand, data, plain, intact, off, position, input, inputClosed,
                   output, outputClosed, errorChan, wpc, wchunk, werr, rpc, pending,
                   nextPosition, result, reports, emitted,
                   fed, inputOpened, outputCreated, completions>>

\* A faulty end of the loop: rawChunks is closed while input is left.
FeedDoneEarly ==
    /\ pc = "feed"
    /\ inputClosed' = TRUE
    /\ pc' = "wait"
    /\ UNCHANGED <<op, c, rand, data, plain, intact, off, position, input, output,
                   outputClosed, errorChan, ctxDone, wpc, wchunk, werr, rpc, pending,
                   nextPosition, result, fileOpen, ret, reports, emitted,
                   fed, inputOpened, outputCreated, completions>>

\* The loop ends (io.EOF, or i >= len(data)): close(rawChunks), then wg.Wait().
FeedDone ==
    /\ pc = "feed"
    /\ ~MoreInput(off)
    /\ inputClosed' = TRUE
    /\ pc' = "wait"
    /\ UNCHANGED <<op, c, rand, data, plain, intact, off, position, input, output,
                   outputClosed, errorChan, ctxDone, wpc, wchunk, werr, rpc, pending,
                   nextPosition, result, fileOpen, ret, reports, emitted,
                   fed, inputOpened, outputCreated, completions>>

\* A faulty join: encryptedChunks is closed without wg.Wait().
WaitDoneNoJoin ==
    /\ pc = "wait"
    /\ outputClosed' = TRUE
    /\ pc' = "final"
    /\ UNCHANGED <<op, c, rand, data, plain, intact, off, position, input, inputClosed,
                   output, errorChan, ctxDone, wpc, wchunk, werr, rpc, pending,
                   nextPosition, result, fileOpen, ret, reports, emitted,
                   fed, inputOpened, outputCreated, completions>>

\* wg.Wait() returns: close(encryptedChunks).
WaitDone ==
    /\ pc = "wait"
    /\ \A w \in Workers : wpc[w] = "exited"
    /\ outputClosed' = TRUE
    /\ pc' = "final"
    /\ UNCHANGED <<op, c, rand, data, plain, intact, off, position, input, inputClosed,
                   output, errorChan, ctxDone, wpc, wchunk, werr, rpc, pending,
                   nextPosition, result, fileOpen, ret, reports, emitted,
                   fed, inputOpened, outputCreated, completions>>

\* The file operations' last select: case <-writeComplete: return &outputPath, nil
FinalComplete ==
    /\ pc = "final"
    /\ op \in FileOps
    /\ rpc = "complete"
    /\ rpc' = "exited"
    /\ Return(NoErr, <<>>)
    /\ UNCHANGED <<op, c, rand, data, plain, intact, off, position, input, inputClosed,
                   output, outputClosed, errorChan, wpc, wchunk, werr, pending,
                   nextPosition, result, reports, emitted,
                   fed, inputOpened, outputCreated, completions>>

\* The file operations' last select: case err := <-errorChan: return nil, err
FinalError ==
    /\ pc = "final"
    /\ op \in FileOps
    /\ Len(errorChan) > 0
    /\ errorChan' = Tail(errorChan)
    /\ Return(Head(errorChan), <<>>)
    /\ UNCHANGED <<op, c, rand, data, plain, intact, off, position, input, inputClosed,
                   output, outputClosed, wpc, wchunk, werr, rpc, pending, nextPosition,
                   result, reports, emitted,
                   fed, inputOpened, outputCreated, completions>>

\* A faulty last step: the result is returned without looking at errorChan.
BufferResultIgnoringErrors(ec, res) == [err |-> NoErr, buf |-> res]

\* The buffer operations' last select, on errorChan with a default: the error
\* and a nil buffer, or the result and no error.
BufferResult(ec, res) ==
    IF Len(ec) > 0 THEN [err |-> Head(ec), buf |-> <<>>] ELSE [err |-> NoErr, buf |-> res]

\* The buffer operations: <-collectorDone, then the last select.
FinalBuffer ==
    /\ pc = "final"
    /\ op \notin FileOps
    /\ rpc = "exited"
    /\ errorChan' = IF Len(errorChan) > 0 THEN Tail(errorChan) ELSE errorChan
    /\ Return(BufferResult(errorChan, result).err, BufferResult(errorChan, result).buf)
    /\ UNCHANGED <<op, c, rand, data, plain, intact, off, position, input, inputClosed,
                   output, outputClosed, wpc, wchunk, werr, rpc, pending, nextPosition,
                   result, reports, emitted,
                   fed, inputOpened, outputCreated, completions>>

\* ------------------------------------------------------------------ workers

\* make([]byte, gcm.NonceSize()) filled by io.ReadFull(rand.Reader, nonce).
Nonce(b) == [j \in 1..NonceSize |-> b]

\* encryptWorker: the chunk it sends for an input chunk, with nonce n.
EncryptedChunk(ch, n) ==
    [data |-> n \o Seal(c.key, n, ch.data), position |-> ch.position]

\* decryptWorker: what becomes of an input chunk: an error, or the chunk to send.
DecryptedChunk(ch) ==
    IF Len(ch.data) < NonceSize
    THEN [ok |-> FALSE, err |-> [kind |-> "encrypted chunk too small", position |-> ch.position],
          chunk |-> NoChunk]
    ELSE LET nonce == SubSeq(ch.data, 1, NonceSize)
             ciphertext == SubSeq(ch.data, NonceSize + 1, Len(ch.data))
             opened == Open(c.key, nonce, ciphertext)
         IN IF opened.ok
            THEN [ok |-> TRUE, err |-> NoErr,
                  chunk |-> [data |-> opened.data, position |-> ch.position]]
            ELSE [ok |-> FALSE, err |-> [kind |-> "failed to decrypt chunk", position |-> ch.position],
                  chunk |-> NoChunk]

WorkerFrame ==
    UNCHANGED <<op, c, rand, data, plain, intact, pc, off, position, inputClosed,
                outputClosed, ctxDone, rpc, pending, nextPosition, result, fileOpen, ret,
                emitted, fed, inputOpened, outputCreated, completions>>

\* encryptWorker: case chunk, ok := <-input, the nonce is read, the chunk sealed.
EncryptRecv(w) ==
    /\ op \in EncOps
    /\ wpc[w] = "select"
    /\ Len(input) > 0
    /\ input' = Tail(input)
    /\ \E b \in rand :
        /\ wchunk' = [wchunk EXCEPT ![w] = EncryptedChunk(Head(input), Nonce(b))]
        /\ wpc' = [wpc EXCEPT ![w] = "send"]
    /\ UNCHANGED <<output, errorChan, werr, reports>>
    /\ WorkerFrame

\* encryptWorker: case chunk, ok := <-input, and io.ReadFull(rand.Reader, nonce) fails.
EncryptRecvNonceError(w) ==
    /\ op \in EncOps
    /\ wpc[w] = "select"
    /\ Len(input) > 0
    /\ input' = Tail(input)
    /\ werr' = [werr EXCEPT ![w] = [kind |-> "failed to generate nonce",
                                    position |-> Head(input).position]]
    /\ wpc' = [wpc EXCEPT ![w] = "report"]
    /\ UNCHANGED <<output, errorChan, wchunk, reports>>
    /\ WorkerFrame

\* decryptWorker: case chunk, ok := <-input, the chunk is split and opened.
DecryptRecv(w) ==
    /\ op \notin EncOps
    /\ wpc[w] = "select"
    /\ Len(input) > 0
    /\ input' = Tail(input)
    /\ LET d == DecryptedChunk(Head(input))
       IN IF d.ok
          THEN /\ wchunk' = [wchunk EXCEPT ![w] = d.chunk]
               /\ wpc' = [wpc EXCEPT ![w] = "send"]
               /\ werr' = werr
          ELSE /\ werr' = [werr EXCEPT ![w] = d.err]
               /\ wpc' = [wpc EXCEPT ![w] = "report"]
               /\ wchunk' = wchunk
    /\ UNCHANGED <<output, errorChan, reports>>
    /\ WorkerFrame

\* case chunk, ok := <-input: if !ok { return }
WorkerInputClosed(w) ==
    /\ wpc[w] = "select"
    /\ input = <<>>
    /\ inputClosed
    /\ wpc' = [wpc EXCEPT ![w] = "exited"]
    /\ UNCHANGED <<input, output, errorChan, wchunk, werr, reports>>
    /\ WorkerFrame

\* case <-ctx.Done(): return, in either select of a worker.
WorkerCancelled(w) ==
    /\ wpc[w] \in {"select", "send"}
    /\ ctxDone
    /\ wpc' = [wpc EXCEPT ![w] = "exited"]
    /\ wchunk' = [wchunk EXCEPT ![w] = NoChunk]
    /\ UNCHANGED <<input, output, errorChan, werr, reports>>
    /\ WorkerFrame

\* case output <- DataChunk{...}
WorkerSend(w) ==
    /\ wpc[w] = "send"
    /\ Len(output) < ChanCap
    /\ output' = Append(output, wchunk[w])
    /\ wchunk' = [wchunk EXCEPT ![w] = NoChunk]
    /\ wpc' = [wpc EXCEPT ![w] = "select"]
    /\ UNCHANGED <<input, errorChan, werr, reports>>
    /\ WorkerFrame

\* A faulty worker: after its report it goes on with the next chunk.
WorkerReportAndContinue(w) ==
    /\ wpc[w] = "report"
    /\ Len(Report(errorChan, werr[w])) <= ErrorCap
    /\ errorChan' = Report(errorChan, werr[w])
    /\ reports' = Append(reports, werr[w])
    /\ werr' = [werr EXCEPT ![w] = NoErr]
    /\ wpc' = [wpc EXCEPT ![w] = "select"]
    /\ UNCHANGED <<input, output, wchunk>>
    /\ WorkerFrame

\* select { case errorChan <- err: default: }; return
WorkerReport(w) ==
    /\ wpc[w] = "report"
    /\ Len(Report(errorChan, werr[w])) <= ErrorCap    \* a send needs room
    /\ errorChan' = Report(errorChan, werr[w])
    /\ reports' = Append(reports, werr[w])
    /\ werr' = [werr EXCEPT ![w] = NoErr]
    /\ wpc' = [wpc EXCEPT ![w] = "exited"]
    /\ UNCHANGED <<input, output, wchunk>>
    /\ WorkerFrame

\* ------------------------------------------- the reassembler (writer, collector)

\* pending[chunk.position] = chunk.data
Store(pd, ch) ==
    [p \in (DOMAIN pd) \cup {ch.position} |-> IF p = ch.position THEN ch.data ELSE pd[p]]

\* delete(pending, nextPosition)
Delete(pd, p) == [q \in (DOMAIN pd) \ {p} |-> pd[q]]

\* A faulty drain loop: whatever is held is emitted.
EmitAnyHeld(pd, np) == IF DOMAIN pd = {} THEN -1 ELSE CHOOSE p \in DOMAIN pd : TRUE

\* The position the drain loop emits next, given the holding area: nextPosition
\* when it is held (data, ok := pending[nextPosition]), none (-1) otherwise.
EmitPosition(pd, np) == IF np \in DOMAIN pd THEN np ELSE -1

ReasmFrame ==
    UNCHANGED <<op, c, rand, data, plain, intact, pc, off, position, input, inputClosed,
                outputClosed, ctxDone, wpc, wchunk, werr, fileOpen, ret, fed,
                inputOpened, outputCreated>>

\* for chunk := range input: a chunk is received and stored.
ReasmRecv ==
    /\ rpc = "range"
    /\ Len(output) > 0
    /\ output' = Tail(output)
    /\ pending' = Store(pending, Head(output))
    /\ rpc' = IF EmitPosition(pending', nextPosition) >= 0 THEN "drain" ELSE "range"
    /\ UNCHANGED <<errorChan, nextPosition, result, reports, emitted, completions>>
    /\ ReasmFrame

\* The drain loop: file.Write(data) succeeds, or result = append(result, data...);
\* delete(pending, nextPosition); nextPosition++
ReasmEmit ==
    /\ rpc = "drain"
    /\ op \in FileOps => fileOpen
    /\ LET p == EmitPosition(pending, nextPosition)
       IN /\ result' = result \o pending[p]
          /\ pending' = Delete(pending, p)
          /\ nextPosition' = nextPosition + 1
          /\ emitted' = Append(emitted, p)
    /\ rpc' = IF EmitPosition(pending', nextPosition') >= 0 THEN "drain" ELSE "range"
    /\ UNCHANGED <<output, errorChan, reports, completions>>
    /\ ReasmFrame

\* writeChunks: file.Write(data) fails (always, once the file is closed): the
\* error is reported without blocking, and the writer returns.
ReasmWriteError ==
    /\ rpc = "drain"
    /\ op \in FileOps
    /\ LET e == [kind |-> "failed to write chunk", position |-> nextPosition]
       IN /\ Len(Report(errorChan, e)) <= ErrorCap
          /\ errorChan' = Report(errorChan, e)
          /\ reports' = Append(reports, e)
    /\ rpc' = "exited"
    /\ UNCHANGED <<output, pending, nextPosition, result, emitted, completions>>
    /\ ReasmFrame

\* A faulty reassembler: it takes an empty channel for a closed one.
ReasmClosedEarly ==
    /\ rpc = "range"
    /\ output = <<>>
    /\ rpc' = IF op \in FileOps THEN "complete" ELSE "exited"
    /\ completions' = completions + 1
    /\ UNCHANGED <<output, errorChan, pending, nextPosition, result, reports, emitted>>
    /\ ReasmFrame

\* The range loop ends (the channel is closed and drained): the writer goes on to
\* complete <- struct{}{}; the collector returns, closing collectorDone.
ReasmClosed ==
    /\ rpc = "range"
    /\ output = <<>>
    /\ outputClosed
    /\ rpc' = IF op \in FileOps THEN "complete" ELSE "exited"
    /\ completions' = completions + 1
    /\ UNCHANGED <<output, errorChan, pending, nextPosition, result, reports, emitted>>
    /\ ReasmFrame

\* ------------------------------------------------- decrypting what was encrypted

\* s with its byte at j changed.
Flip(s, j) == [s EXCEPT ![j] = IF s[j] < ByteMod THEN (s[j] + 1) % ByteMod ELSE s[j] + 1]

\* What a corrupted copy of ciphertext s may be.
Corruptions(s) ==
    {Flip(s, j) : j \in 1..Min(Len(s), MaxFlip)}
        \cup {SubSeq(s, 1, Len(s) - k) : k \in 1..Min(Len(s), MaxTrunc)}

\* The decryption that undoes an encryption.
Inverse(o) == IF o = "EncryptFile" THEN "DecryptFile" ELSE "Decrypt"

\* The bytes an encryption that returned success produced: the output file, or
\* the returned buffer.
Produced == IF op \in FileOps THEN result ELSE ret.buf

\* After an encryption returned success: its output is decrypted with the same
\* Cypher (main.go, main_test.go), as it is, or corrupted, or with another key.
StartDecrypt ==
    /\ pc = "returned"
    /\ op \in EncOps
    /\ ret.err = NoErr
    /\ \E k \in 0..MaxKey, d \in {Produced} \cup Corruptions(Produced) :
        /\ k # c.key => d = Produced
        /\ Start(Inverse(op), [c EXCEPT !.key = k], d)
        /\ intact' = (k = c.key /\ d = Produced /\ reports = <<>>)
    /\ UNCHANGED <<rand, plain>>

Next ==
    \/ OpenInput
    \/ OpenInputError
    \/ CreateOutput
    \/ CreateOutputError
    \/ NewCipherError
    \/ StartPipeline
    \/ FeedSend
    \/ FeedError
    \/ FeedReadError
    \/ FeedDone
    \/ WaitDone
    \/ FinalComplete
    \/ FinalError
    \/ FinalBuffer
    \/ \E w \in Workers : EncryptRecv(w)
    \/ \E w \in Workers : EncryptRecvNonceError(w)
    \/ \E w \in Workers : DecryptRecv(w)
    \/ \E w \in Workers : WorkerInputClosed(w)
    \/ \E w \in Workers : WorkerCancelled(w)
    \/ \E w \in Workers : WorkerSend(w)
    \/ \E w \in Workers : WorkerReport(w)
    \/ ReasmRecv
    \/ ReasmEmit
    \/ ReasmWriteError
    \/ ReasmClosed
    \/ StartDecrypt

Spec == Init /\ [][Next]_vars

\* One long plaintext of one-byte chunks, two workers, a random source that
\* yields one value.
InitLong ==
    \E o \in EncOps, k \in {0, BadKey} :
        InitRun(o, [key |-> k, ChunkSize |-> 1, NumWorkers |-> 2],
                [i \in 1..LongLen |-> i % (MaxByte + 1)], {0})

SpecLong == InitLong /\ [][Next]_vars

\* The chunks the pipeline holds: the input queue, the workers, the output queue
\* and the reassembler's holding area.
InFlight ==
    Len(input) + Cardinality({w \in Workers : wpc[w] = "send"}) + Len(output)
        + Cardinality(DOMAIN pending)

\* C9: in every reachable state the pipeline holds at most 3 * NumWorkers + 1
\* chunks, whatever the number of input chunks.
C9_BoundedInFlight == InFlight <= 3 * c.NumWorkers + 1

\* ------------------------------------------------------------------ the claims

RECURSIVE Flatten(_)
\* The concatenation of a sequence of byte sequences.
Flatten(ss) == IF ss = <<>> THEN <<>> ELSE Head(ss) \o Flatten(Tail(ss))

\* Every worker and the reassembler have returned.
AllExited == rpc \in {"none", "exited"} /\ \A w \in Workers : wpc[w] \in {"none", "exited"}

\* The plaintext chunk at position p of the encryption run.
PlainChunk(p) == SubSeq(plain, p * c.ChunkSize + 1, Min((p + 1) * c.ChunkSize, Len(plain)))

\* What decryptWorker makes of the input chunk at position p.
Decrypted(p) == DecryptedChunk([data |-> InputChunk(p), position |-> p])

\* The input chunk at p is rejected by gcm.Open / is shorter than the nonce.
Rejected(p) == Len(InputChunk(p)) >= NonceSize /\ ~Decrypted(p).ok
TooSmall(p) == Len(InputChunk(p)) < NonceSize

\* What the caller returns without taking it from errorChan.
CallerErrors ==
    {"failed to open input file", "failed to create output file",
     "failed to create cipher", "read"}

\* No open, create, read or write failed in this run.
NoIOError ==
    /\ ret.err.kind \notin CallerErrors \ {"failed to create cipher"}
    /\ \A i \in 1..Len(reports) : reports[i].kind # "failed to write chunk"

\* The random source did not fail in this run.
NoNonceError == \A i \in 1..Len(reports) : reports[i].kind # "failed to generate nonce"

\* C1: Buffer round-trip: Encrypt with a key AES takes returns without error unless
\* the random source failed, and Decrypt of what Encrypt returned, with the same key, chunk size and
\* worker count, returns exactly the plaintext and no error.
C1_BufferRoundTrip ==
    /\ (op = "Encrypt" /\ ret.done /\ KeyOK(c.key) /\ NoNonceError) => ret.err = NoErr
    /\ (op = "Decrypt" /\ intact /\ ret.done) => (ret.err = NoErr /\ ret.buf = plain)

\* An intact Decrypt of several chunks by several workers has returned the plaintext.
C1_Witness ==
    /\ op = "Decrypt" /\ intact /\ ret.done
    /\ c.NumWorkers > 1 /\ NumChunks > 1 /\ Len(plain) % c.ChunkSize # 0
    /\ ret.buf = plain

\* C2: File round-trip: when no open, create, read or write fails (and the random
\* source does not), EncryptFile with a key AES takes returns success, DecryptFile of its output with the same key
\* and chunk size returns success and the decrypted file equals the original; the
\* chunks DecryptFile reads open to the plaintext chunks EncryptFile sealed.
C2_FileRoundTrip ==
    /\ (op = "EncryptFile" /\ ret.done /\ KeyOK(c.key) /\ NoIOError /\ NoNonceError)
        => ret.err = NoErr
    /\ (op = "DecryptFile" /\ intact) =>
        /\ NumChunks = (Len(plain) + c.ChunkSize - 1) \div c.ChunkSize
        /\ \A p \in 0..(NumChunks - 1) : Decrypted(p).ok /\ Decrypted(p).chunk.data = PlainChunk(p)
        /\ (ret.done /\ NoIOError) => (ret.err = NoErr /\ result = plain)

\* An intact DecryptFile of several chunks, the last one short, has returned success.
C2_Witness ==
    /\ op = "DecryptFile" /\ intact /\ ret.done /\ ret.err = NoErr
    /\ c.NumWorkers > 1 /\ NumChunks > 1 /\ Len(plain) % c.ChunkSize # 0
    /\ result = plain

\* The bytes of the output that the chunk at position p takes after an encryption.
EncSegment(p) ==
    SubSeq(result, p * EncryptedChunkSize + 1, Min((p + 1) * EncryptedChunkSize, Len(result)))

\* C3: Order preservation: in every state what the reassembler has emitted is
\* exactly the result chunks of positions 0 .. nextPosition-1, in ascending order.
C3_OrderPreserved ==
    /\ emitted = [i \in 1..nextPosition |-> i - 1]
    /\ op \notin EncOps =>
        /\ \A p \in 0..(nextPosition - 1) : Decrypted(p).ok
        /\ result = Flatten([i \in 1..nextPosition |-> Decrypted(i - 1).chunk.data])
    /\ op \in EncOps =>
        /\ Len(result) = Min(nextPosition * c.ChunkSize, Len(data))
                            + nextPosition * (NonceSize + Overhead)
        /\ \A p \in 0..(nextPosition - 1) :
            LET d == DecryptedChunk([data |-> EncSegment(p), position |-> p])
            IN d.ok /\ d.chunk.data = InputChunk(p)

\* A chunk arrived before its predecessor and is held, after chunks were emitted.
C3_Witness ==
    /\ nextPosition >= 1
    /\ \E p \in DOMAIN pending : p > nextPosition
    /\ \E w \in Workers : wpc[w] = "send" /\ wchunk[w].position = nextPosition

\* C4: Key mismatch in file mode: a DecryptFile whose input has a chunk that
\* gcm.Open rejects, or that is shorter than the nonce, returns an error.
C4_FileRejectionFails ==
    (op = "DecryptFile" /\ ret.done /\ \E p \in 0..(NumChunks - 1) : Rejected(p) \/ TooSmall(p))
        => ret.err # NoErr

\* C5: Tamper detection in buffer mode: a Decrypt whose input has a chunk that
\* gcm.Open rejects returns an error and a nil buffer.
C5_BufferRejectionFails ==
    (op = "Decrypt" /\ ret.done /\ \E p \in 0..(NumChunks - 1) : Rejected(p))
        => (ret.err # NoErr /\ ret.buf = <<>>)

\* A Decrypt with a rejected chunk has returned, after the collector had already
\* assembled plaintext of earlier chunks.
C5_Witness ==
    /\ op = "Decrypt" /\ ret.done
    /\ \E p \in 0..(NumChunks - 1) : Rejected(p)
    /\ nextPosition >= 1 /\ result # <<>>
    /\ ret.err.kind = "failed to decrypt chunk"

\* C6: Deadlock freedom: a run that has not returned can always take a step.
C6_NoDeadlock == ret.done \/ ENABLED Next

\* A step of a worker or of the reassembler.
GoroutineStep ==
    \/ \E w \in Workers : EncryptRecv(w)
    \/ \E w \in Workers : EncryptRecvNonceError(w)
    \/ \E w \in Workers : DecryptRecv(w)
    \/ \E w \in Workers : WorkerInputClosed(w)
    \/ \E w \in Workers : WorkerCancelled(w)
    \/ \E w \in Workers : WorkerSend(w)
    \/ \E w \in Workers : WorkerReport(w)
    \/ ReasmRecv
    \/ ReasmEmit
    \/ ReasmWriteError
    \/ ReasmClosed

\* C7: No goroutine leak: after the operation returned, while a worker or the
\* reassembler has not returned, one of them can take a step.
C7_NoLeak == (ret.done /\ ~AllExited) => ENABLED GoroutineStep

\* C8: Join before error return: when an operation has returned an error, its
\* workers and its reassembler have returned.
C8_JoinedOnError == (ret.done /\ ret.err # NoErr) => AllExited

\* C10: First error wins: the error slot holds at most one error; a worker or the
\* writer that reports is never blocked; an error returned from the slot is the
\* first error reported in the run.
C10_FirstErrorWins ==
    /\ Len(errorChan) <= 1
    /\ \A w \in Workers : wpc[w] = "report" => ENABLED WorkerReport(w)
    /\ (op \in FileOps /\ rpc = "drain") => ENABLED ReasmWriteError
    /\ (ret.done /\ ret.err # NoErr /\ ret.err.kind \notin CallerErrors) =>
        (reports # <<>> /\ ret.err = reports[1])

\* Two errors were reported, the second one dropped, and the first one returned.
C10_Witness ==
    /\ Len(reports) >= 2
    /\ reports[2] # reports[1]
    /\ ret.done /\ ret.err = reports[1]

\* The bytes of out that the chunk at position p takes after an encryption.
OutSegment(out, p) ==
    SubSeq(out, p * EncryptedChunkSize + 1, Min((p + 1) * EncryptedChunkSize, Len(out)))

\* out is nonce || Seal(key, nonce, chunk) for each input chunk in order, and
\* nothing else.
Layout(out) ==
    /\ Len(out) = Len(data) + NumChunks * (NonceSize + Overhead)
    /\ \A p \in 0..(NumChunks - 1) :
        LET nonce == SubSeq(OutSegment(out, p), 1, NonceSize)
        IN OutSegment(out, p) = nonce \o Seal(c.key, nonce, InputChunk(p))

\* C11: Output layout: when an encryption returned success, its output (the file,
\* or the buffer) is, for the input chunks in order, nonce || Seal(key, nonce,
\* chunk), with nothing before, between or after, and so is len(input) +
\* n * (NonceSize + Overhead) bytes long.
C11_OutputLayout == (op \in EncOps /\ ret.done /\ ret.err = NoErr) => Layout(Produced)

\* C12: Empty input: with an input of zero bytes the feed loop sends no chunk, no
\* worker has a result to send, nothing is put out, the run can always go on
\* until it returns, and each of the four operations, given a key AES takes and no
\* failing open, create, read or write, returns success with an empty output.
C12_EmptyInput ==
    Len(data) = 0 =>
        /\ fed = <<>> /\ input = <<>>
        /\ output = <<>> /\ \A w \in Workers : wpc[w] # "send" /\ wchunk[w] = NoChunk
        /\ pending = <<>> /\ result = <<>>
        /\ ret.done \/ ENABLED Next
        /\ (ret.done /\ KeyOK(c.key) /\ NoIOError) => (ret.err = NoErr /\ ret.buf = <<>>)

\* DecryptFile of the empty file that EncryptFile made of an empty file has
\* returned success, its output empty.
C12_Witness ==
    /\ op = "DecryptFile" /\ Len(plain) = 0 /\ Len(data) = 0
    /\ ret.done /\ ret.err = NoErr /\ outputCreated /\ result = <<>>
    /\ AllExited

\* The result chunks the workers have made and the reassembler has not yet put out.
ResultChunks ==
    {wchunk[w] : w \in {v \in Workers : wpc[v] = "send"}}
        \cup {output[i] : i \in 1..Len(output)}
        \cup {[data |-> pending[p], position |-> p] : p \in DOMAIN pending}

\* The size S of a full chunk: ChunkSize on the plaintext side, ChunkSize +
\* NonceSize + Overhead on the ciphertext side.
FullSize == IF op \in EncOps THEN c.ChunkSize ELSE c.ChunkSize + NonceSize + Overhead

\* ceil(L / S) for the input length L.
CeilChunks == (Len(data) + FullSize - 1) \div FullSize

\* C13: Chunk sizes: the feed loop sends at most ceil(L/S) chunks, and exactly
\* that many once it has ended; every chunk but the last is S bytes (S = ChunkSize
\* for an encryption, ChunkSize + NonceSize + Overhead for a decryption) and the
\* last holds the 1..S bytes that remain; an encrypting worker's result is its
\* chunk's length + NonceSize + Overhead; L = S gives one chunk, L = S + 1 two,
\* the second of one byte.
C13_ChunkSizes ==
    /\ Len(fed) <= CeilChunks
    /\ inputClosed => Len(fed) = CeilChunks
    /\ \A i \in 1..Len(fed) :
        /\ i < CeilChunks => Len(fed[i].data) = FullSize
        /\ i = CeilChunks => Len(fed[i].data) = Len(data) - (CeilChunks - 1) * FullSize
        /\ Len(fed[i].data) \in 1..FullSize
    /\ op \in EncOps =>
        \A ch \in ResultChunks :
            /\ ch.position < CeilChunks - 1 => Len(ch.data) = c.ChunkSize + NonceSize + Overhead
            /\ Len(ch.data) \in (NonceSize + Overhead + 1)..(c.ChunkSize + NonceSize + Overhead)
    /\ (inputClosed /\ Len(data) = FullSize) => Len(fed) = 1
    /\ (inputClosed /\ Len(data) = FullSize + 1) => (Len(fed) = 2 /\ Len(fed[2].data) = 1)

\* An input of S + 1 bytes, S > 1, was cut into a chunk of S bytes and one of one
\* byte, and the workers' results for both are on their way.
C13_Witness ==
    /\ op \in EncOps /\ c.ChunkSize > 1 /\ Len(data) = c.ChunkSize + 1
    /\ inputClosed /\ Len(fed) = 2
    /\ Len(fed[1].data) = c.ChunkSize /\ Len(fed[2].data) = 1
    /\ \E a, b \in ResultChunks :
        /\ Len(a.data) = c.ChunkSize + NonceSize + Overhead
        /\ Len(b.data) = 1 + NonceSize + Overhead

\* C14: Config validation before I/O: when an operation returns the error of a
\* key whose length AES does not take, no input file has been opened and no
\* output file has been created.
C14_KeyCheckedBeforeIO ==
    (ret.done /\ ret.err.kind = "failed to create cipher") => (~inputOpened /\ ~outputCreated)

\* C15: Missing input: when EncryptFile or DecryptFile has returned the error of
\* os.Open, no output file was created or is open, no worker and no reassembler
\* was started, no chunk was sent, and nothing was written.
C15_MissingInput ==
    (ret.done /\ ret.err.kind = "failed to open input file") =>
        /\ op \in FileOps
        /\ ~inputOpened /\ ~outputCreated /\ ~fileOpen /\ result = <<>>
        /\ rpc = "none" /\ \A w \in Workers : wpc[w] = "none"
        /\ fed = <<>> /\ input = <<>> /\ output = <<>>
        /\ ~ctxDone /\ reports = <<>>

\* DecryptFile, run on the output of an EncryptFile of several chunks, has
\* returned the error of os.Open.
C15_Witness ==
    /\ op = "DecryptFile" /\ Len(plain) > c.ChunkSize
    /\ ret.done /\ ret.err.kind = "failed to open input file"
    /\ ~outputCreated

\* The positions of the chunks on their way: in the input queue, with a worker,
\* in the output queue, held by the reassembler, or already put out.
PositionsInFlight ==
    {input[i].position : i \in 1..Len(input)}
        \cup {ch.position : ch \in ResultChunks}
        \cup {emitted[i] : i \in 1..Len(emitted)}

\* C17: Position contiguity: the chunks the feed loop has sent carry the positions
\* 0, 1, 2, ... in the order sent, each the chunk of the input at that position;
\* the file operations' counter is the number of chunks sent; no position is on its
\* way twice; every result chunk carries the position of the input chunk it was
\* made from.
C17_PositionContiguity ==
    /\ \A i \in 1..Len(fed) : fed[i].position = i - 1 /\ fed[i].data = InputChunk(i - 1)
    /\ op \in FileOps => position = Len(fed)
    /\ PositionsInFlight \subseteq 0..(Len(fed) - 1)
    /\ Cardinality(PositionsInFlight)
        = Len(input) + Cardinality({w \in Workers : wpc[w] = "send"}) + Len(output)
            + Cardinality(DOMAIN pending) + Len(emitted)
    /\ \A ch \in ResultChunks :
        /\ ch.position \in 0..(Len(fed) - 1)
        /\ op \in EncOps =>
            /\ DecryptedChunk(ch).ok
            /\ DecryptedChunk(ch).chunk.data = fed[ch.position + 1].data
        /\ op \notin EncOps =>
            /\ DecryptedChunk(fed[ch.position + 1]).ok
            /\ ch.data = DecryptedChunk(fed[ch.position + 1]).chunk.data

\* Three chunks were sent; the result for position 1 is held by the reassembler
\* while a worker still has the result for position 0 and position 2 waits in
\* the input queue.
C17_Witness ==
    /\ Len(fed) = 3 /\ fed[3].position = 2
    /\ 1 \in DOMAIN pending
    /\ \E w \in Workers : wpc[w] = "send" /\ wchunk[w].position = 0
    /\ Len(input) = 1 /\ input[1].position = 2

\* C18 as claimed: Reassembler completion: the reassembler goes on to signal
\* completion at most once in a run, only when the output queue is closed and
\* empty, and then it holds no chunk.
C18_ReassemblerCompletion ==
    /\ completions <= 1
    /\ completions > 0 => (outputClosed /\ output = <<>> /\ DOMAIN pending = {})

\* C18: Reassembler completion: the reassembler goes on to signal completion at
\* most once in a run, only when the output queue is closed and empty; when no
\* failure was reported in the run it then holds no chunk and has put out every
\* chunk sent; when it still holds chunks, they lie after nextPosition and a
\* worker reported a failure for the chunk at nextPosition.
C18_CompletionWhenNoneFailed ==
    /\ completions <= 1
    /\ completions > 0 =>
        /\ outputClosed /\ output = <<>>
        /\ rpc \in {"complete", "exited"}
        /\ reports = <<>> => (DOMAIN pending = {} /\ Len(emitted) = Len(fed))
        /\ DOMAIN pending # {} =>
            /\ \A p \in DOMAIN pending : p > nextPosition
            /\ \E i \in 1..Len(reports) : reports[i].position = nextPosition

\* The writer of a run in which nothing failed is at complete <- struct{}{},
\* having written several chunks.
C18_Witness ==
    /\ completions = 1 /\ rpc = "complete" /\ reports = <<>>
    /\ Len(emitted) > 1 /\ Len(emitted) = Len(fed) /\ DOMAIN pending = {}

\* C19: Immediate cancellation: once ctx is cancelled, a worker that waits for a
\* chunk or waits to send a result does nothing but return: it takes no further
\* chunk from the input queue and sends no further result.
C19_ImmediateCancellation ==
    [][ctxDone =>
        \A w \in Workers :
            (wpc[w] \in {"select", "send"} /\ wpc'[w] # wpc[w]) => wpc'[w] = "exited"]_vars

\* C20: Fail-fast: once a failure has been reported to errorChan, no further
\* chunk enters the input queue and no worker sends a further result.
C20_FailFast ==
    [][reports # <<>> => (Len(fed') <= Len(fed) /\ Len(output') <= Len(output))]_vars

\* C21: Shutdown ordering on the success path: as long as nothing has failed in a
\* run, the input queue is closed only after the last chunk was sent, the output
\* queue only after the input queue was closed and emptied and every worker has
\* returned, the reassembler goes on to signal completion only after the output
\* queue was closed and emptied and every chunk was put out, and the operation
\* returns success only after that, with the whole output.
C21_ShutdownOrder ==
    (reports = <<>> /\ ret.err = NoErr) =>
        /\ inputClosed => (Len(fed) = NumChunks /\ pc \in {"wait", "final", "returned"})
        /\ outputClosed =>
            /\ inputClosed /\ input = <<>> /\ pc \in {"final", "returned"}
            /\ \A w \in Workers : wpc[w] = "exited" /\ wchunk[w] = NoChunk
        /\ completions > 0 =>
            /\ outputClosed /\ output = <<>>
            /\ DOMAIN pending = {} /\ Len(emitted) = NumChunks
        /\ ret.done =>
            /\ completions = 1 /\ rpc = "exited"
            /\ op \in EncOps => Layout(Produced)
            /\ op \notin EncOps =>
                Produced = Flatten([i \in 1..NumChunks |-> Decrypted(i - 1).chunk.data])

\* EncryptFile of several chunks by several workers, in which nothing failed,
\* has returned success after the writer's completion signal.
C21_Witness ==
    /\ op = "EncryptFile" /\ c.NumWorkers > 1 /\ NumChunks > 1
    /\ reports = <<>> /\ ret.done /\ ret.err = NoErr
    /\ inputClosed /\ outputClosed /\ completions = 1 /\ Len(emitted) = NumChunks

\* What a worker reports.
WorkerErrors ==
    {"failed to generate nonce", "encrypted chunk too small", "failed to decrypt chunk"}

\* The reports of workers so far.
WorkerReports == {i \in 1..Len(reports) : reports[i].kind \in WorkerErrors}

\* A worker about to report holds the error of a chunk that was sent and no
\* result; its report is never blocked; no two reports are for the same chunk,
\* and no result for a reported chunk is anywhere in the pipeline or put out.
FailedChunkDropped ==
    /\ \A w \in Workers :
        wpc[w] = "report" =>
            /\ werr[w].kind \in WorkerErrors
            /\ werr[w].position \in 0..(Len(fed) - 1)
            /\ werr[w].position \notin PositionsInFlight
            /\ wchunk[w] = NoChunk
            /\ ENABLED WorkerReport(w)
    /\ \A w \in Workers : wpc[w] # "report" => werr[w] = NoErr
    /\ \A i \in WorkerReports :
        /\ reports[i].position \notin PositionsInFlight
        /\ \A j \in WorkerReports : reports[j].position = reports[i].position => j = i
    /\ Cardinality(WorkerReports) <= c.NumWorkers

\* A step of a worker about to report is its one report, after which it has
\* returned; the step takes no chunk and sends no result.
ReportThenReturn ==
    \A w \in Workers :
        wpc[w] = "report" =>
            /\ wpc'[w] \in {"report", "exited"}
            /\ wpc'[w] = "exited" =>
                /\ reports' = Append(reports, werr[w])
                /\ input' = input /\ output' = output
            /\ wpc'[w] = "report" => werr'[w] = werr[w]

\* C22: Worker failure: a worker whose chunk fails (no nonce, a chunk shorter than
\* the nonce, a chunk gcm.Open rejects) makes exactly one report, which never
\* blocks, sends no result for that chunk, and returns without taking another
\* chunk.
C22_WorkerFailure == []FailedChunkDropped /\ [][ReportThenReturn]_vars

\* A worker of a decryption has reported a rejected chunk and returned while
\* chunks are left in the input queue and another worker holds a result.
C22_Witness ==
    /\ op \notin EncOps
    /\ \E i \in WorkerReports : reports[i].kind = "failed to decrypt chunk"
    /\ \E w \in Workers : wpc[w] = "exited"
    /\ \E w \in Workers : wpc[w] = "send"
    /\ Len(input) > 0 /\ ~ctxDone

\* C23: No send on a closed queue: a worker that can send, or is about to, finds
\* the output queue open, and the feed loop finds the input queue open; the
\* output queue is closed only when every worker has returned; close(rawChunks)
\* and close(encryptedChunks) are each reached with the queue still open, so
\* each queue is closed at most once.
C23_NoSendOnClosed ==
    /\ \A w \in Workers : wpc[w] \in {"select", "send", "report"} => ~outputClosed
    /\ outputClosed => \A w \in Workers : wpc[w] = "exited"
    /\ pc \in {"open", "create", "cipher", "feed"} => (~inputClosed /\ ~outputClosed)
    /\ pc = "wait" => (inputClosed /\ ~outputClosed)
    /\ ENABLED FeedSend => ~inputClosed
    /\ ENABLED FeedDone => ~inputClosed
    /\ ENABLED WaitDone => ~outputClosed
    /\ \A w \in Workers : ENABLED WorkerSend(w) => ~outputClosed

\* The caller is about to close the output queue: the input queue is closed, the
\* last worker has returned after sending its result, and results are queued.
C23_Witness ==
    /\ pc = "wait" /\ inputClosed /\ ~outputClosed
    /\ \A w \in Workers : wpc[w] = "exited"
    /\ c.NumWorkers > 1 /\ Len(output) > 1 /\ reports = <<>>

\* The feed select's case <-ctx.Done(): return nil, ctx.Err() is ready.
FeedCancelReady == pc = "feed" /\ MoreInput(off) /\ ctxDone

\* C24: The cancellation error is never returned: ctx is cancelled only by the
\* caller as it returns, so the feed loop's case <-ctx.Done() is never ready;
\* every error returned is an open, create, cipher or read error, or an error
\* that was reported to errorChan.
C24_CancelNeverReturned ==
    /\ ~FeedCancelReady
    /\ ctxDone => pc = "returned"
    /\ ret.err.kind # "context canceled"
    /\ (ret.done /\ ret.err # NoErr) =>
        \/ ret.err.kind \in CallerErrors
        \/ \E i \in 1..Len(reports) : reports[i] = ret.err

\* Decrypt has returned a worker's error from its feed loop, cancelling the
\* context, with input left unsent and a chunk left in the queue.
C24_Witness ==
    /\ op = "Decrypt" /\ ret.done /\ ctxDone
    /\ ret.err.kind \in WorkerErrors /\ reports # <<>> /\ ret.err = reports[1]
    /\ MoreInput(off) /\ ~inputClosed /\ Len(input) > 0

====
